---- MODULE Spec2Model ----
(***************************************************************************)
(* Model of app.py: the two search fetchers (google_search, arxiv_search), *)
(* the three agents, LiteratureReviewTeam.conduct_review and main.         *)
(*                                                                         *)
(* The program is single-threaded and keeps no state between invocations.  *)
(* A call of a fetcher is one action.  A call of conduct_review or a run of *)
(* main walks through its stages, pc telling where it stands: the call of  *)
(* each agent, the except clause and the rendering are one action each.    *)
(* input holds the arguments and what the outside world does during the    *)
(* call, output what the call has produced so far.                         *)
(*                                                                         *)
(* Representation of Python values:                                        *)
(*   - a long text is [s, len]: s tells a fixed literal from external       *)
(*     text, len is its length in characters; t[:k] is Truncate(t, k);      *)
(*   - a page text is [words, wlen]: that many words of wlen characters;    *)
(*   - the topic is a real sequence of characters (strip() looks at them);  *)
(*   - a value of unknown type is [type, items] (isinstance reads type);    *)
(*   - a call that may raise yields [raised, exc, value, ...].              *)
(***************************************************************************)
EXTENDS Integers, Sequences, FiniteSets, TLC

VARIABLES op, pc, input, output

vars == <<op, pc, input, output>>

---------------------------------------------------------------------------
(* Program constants *)

MAX_SEARCH_RESULTS == 2
MAX_BODY_LENGTH == 2000
TitleLimit == 200
SnippetLimit == 500
PaperTitleLimit == 300
AuthorNameLimit == 50
AuthorsLimit == 5
AbstractLimit == 1000
QueryLimit == 100
TopicLimit == 200
ContextLimit == 1500
OutputLimit == 5000
PreviewLimit == 300
AuthorsPreviewLimit == 100
ReviewDisplayLimit == 10000
PromptDisplayLimit == 2000
InputMaxChars == 200

(* Bounds of the model *)

MaxContainers == 3
MaxPapers == 3
MaxCap == 3
MaxFakeLen == 3

---------------------------------------------------------------------------
(* Python helpers *)

Range(seq) == {seq[i] : i \in 1..Len(seq)}

Min(a, b) == IF a <= b THEN a ELSE b
Max(a, b) == IF a >= b THEN a ELSE b

\* seq[:n] for an integer n: a negative n counts from the end.
PySlice(seq, n) ==
  IF n >= 0 THEN SubSeq(seq, 1, Min(n, Len(seq)))
  ELSE SubSeq(seq, 1, Max(Len(seq) + n, 0))

T(s, n) == [s |-> s, len |-> n]

\* t[:k] on a text, k >= 0.
Truncate(t, k) == [t EXCEPT !.len = Min(t.len, k)]

IntV(n) == [type |-> "int", n |-> n]
NoneCap == [type |-> "NoneType", n |-> 0]
StrCap == [type |-> "str", n |-> 0]

\* seq[:cap] where cap is any Python value: None takes everything, a
\* non-integer raises TypeError.
SliceByCap(seq, cap) ==
  IF cap.type = "int" THEN [raised |-> FALSE, value |-> PySlice(seq, cap.n)]
  ELSE IF cap.type = "NoneType" THEN [raised |-> FALSE, value |-> seq]
  ELSE [raised |-> TRUE, value |-> <<>>]

---------------------------------------------------------------------------
(* google_search *)

\* ' '.join(text.split()[:MAX_BODY_LENGTH]) then body[:MAX_BODY_LENGTH]:
\* the first cut counts words, the second counts characters.
BodyOf(text) ==
  LET n == Min(text.words, MAX_BODY_LENGTH)
      joined == IF n = 0 THEN 0 ELSE n * text.wlen + (n - 1)
      chars == Min(joined, MAX_BODY_LENGTH)
  IN [chars |-> chars,
      words |-> Min(n, (chars + text.wlen) \div (text.wlen + 1))]

EmptyBody == [chars |-> 0, words |-> 0]

\* The secondary page fetch with its own try/except: any failure leaves
\* the body empty.  A link without a scheme ("#", "") makes requests.get
\* raise before any request is sent.
FetchBody(link, page) ==
  IF link.s # "url" \/ page.fails THEN EmptyBody ELSE BodyOf(page.text)

NoRecord == [title |-> T("", 0), link |-> T("", 0), snippet |-> T("", 0),
             body |-> EmptyBody]

\* The per-result try without the slices of lines 63 and 65.
ProcessResultNoTruncation(g) ==
  LET title == IF g.h3.present THEN T("text", g.h3.len) ELSE T("No title", 8)
      snippet == IF g.span.present THEN T("text", g.span.len)
                 ELSE T("No snippet", 10)
      link == IF g.a = "missing" THEN T("#", 1)
              ELSE IF g.a = "empty" THEN T("", 0)
              ELSE T("url", 20)
  IN IF g.a = "nohref" THEN [raised |-> TRUE, rec |-> NoRecord, net |-> 0]
     ELSE [raised |-> FALSE,
           rec |-> [title |-> title, link |-> link, snippet |-> snippet,
                    body |-> FetchBody(link, g.page)],
           net |-> IF link.s = "url" THEN 1 ELSE 0]

\* The body of the per-result try: the three defensive extractions, the
\* page fetch and the record that is appended.  g.find('a')['href'] raises
\* KeyError when the <a> element has no href attribute.
ProcessResult(g) ==
  LET title == IF g.h3.present THEN T("text", g.h3.len) ELSE T("No title", 8)
      snippet == IF g.span.present THEN T("text", g.span.len)
                 ELSE T("No snippet", 10)
      link == IF g.a = "missing" THEN T("#", 1)
              ELSE IF g.a = "empty" THEN T("", 0)
              ELSE T("url", 20)
  IN IF g.a = "nohref" THEN [raised |-> TRUE, rec |-> NoRecord, net |-> 0]
     ELSE [raised |-> FALSE,
           rec |-> [title |-> Truncate(title, TitleLimit),
                    link |-> link,
                    snippet |-> Truncate(snippet, SnippetLimit),
                    body |-> FetchBody(link, g.page)],
           net |-> IF link.s = "url" THEN 1 ELSE 0]

\* The for loop: a result whose processing raises is logged and skipped.
RECURSIVE GoogleLoop(_)
GoogleLoop(results) ==
  IF results = <<>> THEN [value |-> <<>>, net |-> 0]
  ELSE LET r == ProcessResult(Head(results))
           rest == GoogleLoop(Tail(results))
       IN [value |-> IF r.raised THEN rest.value ELSE <<r.rec>> \o rest.value,
           net |-> r.net + rest.net]

\* The body of the outer try, before the except clause.
GoogleSearchBody(query, num_results, env) ==
  IF query.type # "str" THEN
    [raised |-> TRUE, exc |-> "TypeError", value |-> <<>>, net |-> 0]
  ELSE IF env.search = "transport" THEN
    [raised |-> TRUE, exc |-> "ConnectionError", value |-> <<>>, net |-> 1]
  ELSE IF env.search = "status" THEN
    [raised |-> TRUE, exc |-> "HTTPError", value |-> <<>>, net |-> 1]
  ELSE LET cut == SliceByCap(env.containers, num_results)
           loop == GoogleLoop(cut.value)
       IN IF cut.raised THEN
            [raised |-> TRUE, exc |-> "TypeError", value |-> <<>>, net |-> 1]
          ELSE [raised |-> FALSE, exc |-> "", value |-> loop.value,
                net |-> 1 + loop.net]

\* google_search without the outer except clause.
google_search_uncaught(query, num_results, env) ==
  GoogleSearchBody(query, num_results, env)

google_search(query, num_results, env) ==
  LET b == GoogleSearchBody(query, num_results, env)
  IN [b EXCEPT !.raised = FALSE, !.exc = ""]

---------------------------------------------------------------------------
(* arxiv_search *)

\* One entry of the results list, lines 91-97.
PaperRecord(paper) ==
  [title |-> Truncate(T("text", paper.title), PaperTitleLimit),
   authors |-> PySlice([i \in 1..Len(paper.authors) |->
                          Truncate(T("text", paper.authors[i]), AuthorNameLimit)],
                       AuthorsLimit),
   published |-> IF paper.published THEN T("date", 10) ELSE T("Unknown", 7),
   abstract |-> IF paper.summary > 0
                THEN Truncate(T("text", paper.summary), AbstractLimit)
                ELSE T("No abstract", 11),
   pdf_url |-> IF paper.pdf THEN T("url", 30) ELSE T("#", 1)]

\* The body of the try: every record the client yields is appended; the
\* function itself never counts them against max_results.  The client
\* may raise after having yielded env.failAfter records.
ArxivSearchBody(query, max_results, env) ==
  LET n == IF env.fails THEN Min(env.failAfter, Len(env.papers))
           ELSE Len(env.papers)
  IN [raised |-> env.fails,
      exc |-> IF env.fails THEN "HTTPError" ELSE "",
      value |-> [i \in 1..n |-> PaperRecord(env.papers[i])],
      net |-> 1]

arxiv_search(query, max_results, env) ==
  LET b == ArxivSearchBody(query, max_results, env)
  IN [b EXCEPT !.raised = FALSE, !.exc = ""]

---------------------------------------------------------------------------
(* Inputs of the fetchers *)

RECURSIVE SeqsUpTo(_, _)
SeqsUpTo(S, n) ==
  IF n = 0 THEN {<<>>}
  ELSE LET shorter == SeqsUpTo(S, n - 1)
       IN shorter \cup {Append(q, x) : q \in {r \in shorter : Len(r) = n - 1},
                                        x \in S}

Absent == [present |-> FALSE, len |-> 0]
Present(n) == [present |-> TRUE, len |-> n]

NoPage == [fails |-> TRUE, text |-> [words |-> 0, wlen |-> 1]]
Page(w, l) == [fails |-> FALSE, text |-> [words |-> w, wlen |-> l]]

H3s == {Absent, Present(5), Present(TitleLimit + 1)}
Spans == {Absent, Present(7), Present(SnippetLimit + 1)}
SmallPage == Page(3, 4)
Pages == {NoPage, SmallPage, Page(MAX_BODY_LENGTH + 1, 1),
          Page(2, MAX_BODY_LENGTH)}

\* Result containers: every title/snippet shape over a plain link, and
\* every link/page shape under one title/snippet shape.
Containers ==
  {[h3 |-> h, a |-> "url", span |-> s, page |-> SmallPage] :
     h \in H3s, s \in Spans}
  \cup {[h3 |-> Present(TitleLimit + 1), a |-> "url", span |-> Absent,
         page |-> p] : p \in Pages}
  \cup {[h3 |-> Present(TitleLimit + 1), a |-> a, span |-> Absent,
         page |-> NoPage] : a \in {"missing", "nohref", "empty"}}

GoogleEnvs ==
  {[search |-> s, containers |-> <<>>] : s \in {"transport", "status"}}
  \cup {[search |-> "ok", containers |-> c] :
          c \in SeqsUpTo(Containers, MaxContainers)}

Caps == {IntV(k) : k \in -1..MaxCap} \cup {NoneCap, StrCap}

NoneValue == [type |-> "NoneType", chars |-> <<>>]
Str(chars) == [type |-> "str", chars |-> chars]
Queries == {Str(<<"a">>), NoneValue}
\* arxiv_search hands its query to the client unread: what the client
\* makes of it is part of ArxivEnvs.
ArxivQueries == {q \in Queries : q.type = "str"}

ManyAuthors == [i \in 1..(AuthorsLimit + 1) |-> AuthorNameLimit + 1]
Papers ==
  {[title |-> 5, authors |-> <<10, 12>>, published |-> TRUE,
    summary |-> 20, pdf |-> TRUE],
   [title |-> PaperTitleLimit + 1, authors |-> ManyAuthors,
    published |-> FALSE, summary |-> AbstractLimit + 1, pdf |-> FALSE],
   [title |-> PaperTitleLimit, authors |-> <<>>, published |-> TRUE,
    summary |-> 0, pdf |-> FALSE],
   [title |-> 1, authors |-> <<AuthorNameLimit + 1>>, published |-> FALSE,
    summary |-> AbstractLimit, pdf |-> TRUE]}

ArxivEnvs ==
  {[papers |-> p, fails |-> FALSE, failAfter |-> 0] :
     p \in SeqsUpTo(Papers, MaxPapers)}
  \cup {[papers |-> p, fails |-> TRUE, failAfter |-> k] :
          p \in SeqsUpTo(Papers, MaxPapers), k \in 0..MaxPapers}

---------------------------------------------------------------------------
(* The agents *)

ListV(items) == [type |-> "list", items |-> items]
OtherV(type, items) == [type |-> type, items |-> items]
NoneResults == OtherV("NoneType", <<>>)

\* What a stage hands back to conduct_review: it raised, or it returned
\* the pair (results, prompt).
StageRaise(exc, net, fetches) ==
  [raised |-> TRUE, exc |-> exc, results |-> NoneResults,
   prompt |-> [prefix |-> "", topic |-> <<>>], net |-> net,
   fetches |-> fetches]
StageReturn(results, prompt, net, fetches) ==
  [raised |-> FALSE, exc |-> "", results |-> results, prompt |-> prompt,
   net |-> net, fetches |-> fetches]

\* A patched agent does what its outcome says, without any fetch.
FakeRun(out) ==
  IF out.kind = "raise" THEN StageRaise(out.exc, 0, <<>>)
  ELSE StageReturn(out.results, [prefix |-> "fake", topic |-> <<>>], 0, <<>>)

\* GoogleSearchAgent.run: topic[:50] and topic[:100] raise TypeError on a
\* topic that is no string; the fetcher is called with its default cap.
GoogleSearchAgent_run(topic, agent) ==
  IF agent.mode = "fake" THEN FakeRun(agent.out)
  ELSE IF topic.type # "str" THEN StageRaise("TypeError", 0, <<>>)
  ELSE LET safe_topic == Str(PySlice(topic.chars, QueryLimit))
           r == google_search(safe_topic, IntV(MAX_SEARCH_RESULTS), agent.env)
       IN IF r.raised THEN StageRaise(r.exc, r.net, <<"google_search">>)
          ELSE StageReturn(ListV(r.value),
                           [prefix |-> "Google search for: ",
                            topic |-> safe_topic.chars],
                           r.net, <<"google_search">>)

\* ArxivSearchAgent.run
ArxivSearchAgent_run(topic, agent) ==
  IF agent.mode = "fake" THEN FakeRun(agent.out)
  ELSE IF topic.type # "str" THEN StageRaise("TypeError", 0, <<>>)
  ELSE LET safe_topic == Str(PySlice(topic.chars, QueryLimit))
           r == arxiv_search(safe_topic, IntV(MAX_SEARCH_RESULTS), agent.env)
       IN IF r.raised THEN StageRaise(r.exc, r.net, <<"arxiv_search">>)
          ELSE StageReturn(ListV(r.value),
                           [prefix |-> "Arxiv search for: ",
                            topic |-> safe_topic.chars],
                           r.net, <<"arxiv_search">>)

RECURSIVE Sum(_)
Sum(ns) == IF ns = <<>> THEN 0 ELSE Head(ns) + Sum(Tail(ns))

TextLens(texts) == [i \in 1..Len(texts) |-> texts[i].len]

\* len(str(record)): the field texts plus the punctuation of the dict.
GoogleRecordStrLen(r) ==
  52 + r.title.len + r.link.len + r.snippet.len + r.body.chars
PaperRecordStrLen(r) ==
  74 + r.title.len + Sum(TextLens(r.authors)) + 4 * Len(r.authors)
     + r.published.len + r.abstract.len + r.pdf_url.len

GoogleStrLens(items) ==
  [i \in 1..Len(items) |-> GoogleRecordStrLen(items[i])]
PaperStrLens(items) ==
  [i \in 1..Len(items) |-> PaperRecordStrLen(items[i])]

\* len(str(list)[:ContextLimit]), from the lengths of the entries
ContextLen(lens) ==
  Min(2 + Sum(lens) + 2 * Max(Len(lens) - 1, 0), ContextLimit)

\* The prompt template of ReportAgent.run, lines 123-131.
BuildPrompt(topic, google_results, arxiv_results) ==
  LET truncated_topic == PySlice(topic, TopicLimit)
      safe_google == ContextLen(GoogleStrLens(google_results))
      safe_arxiv == ContextLen(PaperStrLens(arxiv_results))
  IN [kind |-> "template", topic |-> truncated_topic,
      google |-> safe_google, arxiv |-> safe_arxiv,
      len |-> 170 + Len(truncated_topic) + safe_google + safe_arxiv]

StubPrompt == [kind |-> "stub", topic |-> <<>>, google |-> 0, arxiv |-> 0,
               len |-> 11]

GenerationError == T("Error generating literature review", 34)
EmptyOutput == T("Failed to generate review - empty output", 40)
SystemErrorReview == T("Failed to generate review due to system error", 45)

\* Generation without the except clause of lines 162-164.
GenerateNoCatch(gen) ==
  IF gen.kind \in {"tokenizer_raises", "generate_raises"} THEN
    [raised |-> TRUE, text |-> T("", 0)]
  ELSE IF gen.kind = "empty" THEN [raised |-> FALSE, text |-> EmptyOutput]
  ELSE [raised |-> FALSE,
        text |-> Truncate(T("generated", gen.len), OutputLimit)]

\* Lines 133-164: tokenization and generation inside the try, the text
\* that comes out of it.
Generate(gen) ==
  IF gen.kind \in {"tokenizer_raises", "generate_raises"} THEN
    [raised |-> FALSE, text |-> GenerationError]
  ELSE IF gen.kind = "empty" THEN [raised |-> FALSE, text |-> EmptyOutput]
  ELSE [raised |-> FALSE,
        text |-> Truncate(T("generated", gen.len), OutputLimit)]

\* ReportAgent.run, or the stub patched in its place.
ReportAgent_run(topic, google_results, arxiv_results, agent) ==
  IF agent.mode = "fake" THEN
    IF agent.out.kind = "raise" THEN
      [raised |-> TRUE, exc |-> agent.out.exc, text |-> T("", 0),
       prompt |-> StubPrompt]
    ELSE [raised |-> FALSE, exc |-> "", text |-> T("STUB REVIEW TEXT", 16),
          prompt |-> StubPrompt]
  ELSE LET prompt == BuildPrompt(topic, google_results, arxiv_results)
           g == Generate(agent.gen)
       IN [raised |-> g.raised,
           exc |-> IF g.raised THEN "RuntimeError" ELSE "",
           text |-> g.text, prompt |-> prompt]

---------------------------------------------------------------------------
(* LiteratureReviewTeam.conduct_review *)

NoArgs == [called |-> FALSE, topic |-> <<>>, google |-> <<>>, arxiv |-> <<>>]
NoResult == [literature_review |-> T("", 0)]
NoStage == StageRaise("", 0, <<>>)

\* A check that lets a tuple through as well.
AsListOrTuple(v) == IF v.type \in {"list", "tuple"} THEN v.items ELSE <<>>

\* isinstance(results, list), else []
AsList(v) == IF v.type = "list" THEN v.items ELSE <<>>

\* The call of report_agent.run without the slices of lines 187-189.
ReportArgsNoCap(topic, google_results, arxiv_results) ==
  [called |-> TRUE, topic |-> topic, google |-> google_results,
   arxiv |-> arxiv_results]

\* The arguments of the call of report_agent.run, lines 186-190.
ReportArgs(topic, google_results, arxiv_results) ==
  [called |-> TRUE,
   topic |-> PySlice(topic, TopicLimit),
   google |-> PySlice(google_results, MAX_SEARCH_RESULTS),
   arxiv |-> PySlice(arxiv_results, MAX_SEARCH_RESULTS)]

\* The dict returned at lines 192-199.
SuccessResult(g, a, r) ==
  [google_prompt |-> g.prompt,
   arxiv_prompt |-> a.prompt,
   report_prompt |-> r.prompt,
   google_results |-> AsList(g.results),
   arxiv_results |-> AsList(a.results),
   literature_review |-> r.text]

ErrorMessage(exc) == [prefix |-> "System error: ", exc |-> exc]

\* An error dict that keeps a prompt next to the error.
FailureResultKeepsPrompt(exc) ==
  [error |-> ErrorMessage(exc),
   google_prompt |-> [prefix |-> "", topic |-> <<>>],
   literature_review |-> SystemErrorReview]

\* The dict returned at lines 203-206.
FailureResult(exc) ==
  [error |-> ErrorMessage(exc), literature_review |-> SystemErrorReview]

\* No except clause: the exception leaves conduct_review.
OnExceptionUncaught(o) == [o EXCEPT !.raised = TRUE]

\* The except clause, lines 201-206: the exception ends there and the
\* error dict is returned.
OnException(o) == [o EXCEPT !.result = FailureResult(o.exc)]

---------------------------------------------------------------------------
(* main *)

IsSpace(c) == c = " "

RECURSIVE LStrip(_)
LStrip(chars) ==
  IF chars # <<>> /\ IsSpace(Head(chars)) THEN LStrip(Tail(chars)) ELSE chars

RECURSIVE RStrip(_)
RStrip(chars) ==
  IF chars # <<>> /\ IsSpace(chars[Len(chars)])
  THEN RStrip(SubSeq(chars, 1, Len(chars) - 1)) ELSE chars

\* topic.strip()
Strip(chars) == RStrip(LStrip(chars))

\* A check that only looks for None, not for blank text.
RejectsOnlyNone(topic) == topic.type # "str"

\* not topic.strip(), line 216
Rejects(topic) == Strip(topic.chars) = <<>>

NoError == [prefix |-> "", exc |-> ""]
InvalidTopic == [prefix |-> "Please enter a valid topic!", exc |-> ""]

NothingShown ==
  [error |-> NoError, google |-> <<>>, arxiv |-> <<>>, review |-> T("", 0),
   report_prompt |-> 0]

\* One entry of the Google column, lines 238-241.
ShowResult(res) ==
  [title |-> res.title, preview |-> Truncate(res.snippet, PreviewLimit),
   link |-> res.link]

\* ', '.join(authors)[:100]
AuthorsPreview(authors) ==
  Min(Sum(TextLens(authors)) + 2 * Max(Len(authors) - 1, 0),
      AuthorsPreviewLimit)

\* One entry of the Arxiv column, lines 249-252.
ShowPaper(paper) ==
  [title |-> paper.title, authors |-> AuthorsPreview(paper.authors),
   pdf |-> paper.pdf_url]

\* Lines 228-265: what the page shows of a success result.
Render(result) ==
  LET g == PySlice(result.google_results, MAX_SEARCH_RESULTS)
      a == PySlice(result.arxiv_results, MAX_SEARCH_RESULTS)
  IN [error |-> NoError,
      google |-> [i \in 1..Len(g) |-> ShowResult(g[i])],
      arxiv |-> [i \in 1..Len(a) |-> ShowPaper(a[i])],
      review |-> Truncate(result.literature_review, ReviewDisplayLimit),
      report_prompt |-> Min(result.report_prompt.len, PromptDisplayLimit)]

\* What main shows once conduct_review is back, lines 224-265.  main has
\* no try of its own: were conduct_review to raise, nothing would be shown.
Shown(o) ==
  IF o.raised THEN NothingShown
  ELSE IF "error" \in DOMAIN o.result
  THEN [NothingShown EXCEPT !.error = o.result.error]
  ELSE Render(o.result)

\* The record of one run, before anything happened.
Started ==
  [rejected |-> FALSE, reviews |-> 0, raised |-> FALSE, exc |-> "",
   calls |-> <<>>, fetches |-> <<>>, net |-> 0, g |-> NoStage,
   a |-> NoStage, reportArgs |-> NoArgs, result |-> NoResult,
   shown |-> NothingShown]

---------------------------------------------------------------------------
(* Inputs of the pipeline *)

Repeat(c, n) == [i \in 1..n |-> c]

Topics ==
  {Str(<<>>), Str(<<" ">>), Str(<<" ", " ">>), Str(<<"a">>),
   Str(<<" ", "a", " ">>), Str(Repeat("a", QueryLimit + 1)),
   Str(Repeat("a", TopicLimit)), Str(Repeat("a", TopicLimit + 1)),
   NoneValue}

\* What st.text_input(max_chars=200) can deliver.
TypedTopics ==
  {t \in Topics : t.type = "str" /\ Len(t.chars) <= InputMaxChars}

PlainContainer == [h3 |-> Present(5), a |-> "url", span |-> Present(7),
                   page |-> SmallPage]
PlainPaper == [title |-> 5, authors |-> <<10, 12>>, published |-> TRUE,
               summary |-> 20, pdf |-> TRUE]

NoEnv == [search |-> "none", containers |-> <<>>, papers |-> <<>>,
          fails |-> FALSE, failAfter |-> 0]
NoOut == [kind |-> "none", exc |-> "", results |-> NoneResults]
NoGen == [kind |-> "none", len |-> 0]

FakeResult == ProcessResult(PlainContainer).rec
FakePaper == PaperRecord(PlainPaper)

\* Results a patched search stage may return: not a list at all, or a
\* list of any length up to MaxFakeLen, whatever the cap.
FakeOuts(exc, rec) ==
  {[kind |-> "raise", exc |-> exc, results |-> NoneResults]}
  \cup {[kind |-> "return", exc |-> "", results |-> OtherV(t, <<>>)] :
          t \in {"NoneType", "str", "dict"}}
  \cup {[kind |-> "return", exc |-> "",
          results |-> OtherV("tuple", Repeat(rec, n))] : n \in 0..1}
  \cup {[kind |-> "return", exc |-> "", results |-> ListV(Repeat(rec, n))] :
          n \in 0..MaxFakeLen}

GoogleAgents ==
  {[mode |-> "real", env |-> [NoEnv EXCEPT !.search = "transport"],
    out |-> NoOut]}
  \cup {[mode |-> "real", out |-> NoOut,
         env |-> [NoEnv EXCEPT !.search = "ok",
                               !.containers = Repeat(PlainContainer, n)]] :
          n \in 0..MaxContainers}
  \cup {[mode |-> "fake", env |-> NoEnv, out |-> o] :
          o \in FakeOuts("GoogleStageError", FakeResult)}

ArxivAgents ==
  {[mode |-> "real", out |-> NoOut,
    env |-> [NoEnv EXCEPT !.papers = Repeat(PlainPaper, n), !.fails = f]] :
     n \in 0..MaxPapers, f \in BOOLEAN}
  \cup {[mode |-> "fake", env |-> NoEnv, out |-> o] :
          o \in FakeOuts("ArxivStageError", FakePaper)}

ReportAgents ==
  {[mode |-> "real", out |-> NoOut, gen |-> g] :
     g \in {[kind |-> "ok", len |-> 120],
            [kind |-> "ok", len |-> OutputLimit + 1],
            [kind |-> "empty", len |-> 0],
            [kind |-> "tokenizer_raises", len |-> 0],
            [kind |-> "generate_raises", len |-> 0]}}
  \cup {[mode |-> "fake", gen |-> NoGen,
         out |-> [kind |-> k, exc |-> "ReportStageError",
                  results |-> NoneResults]] : k \in {"raise", "return"}}

Teams == [google : GoogleAgents, arxiv : ArxivAgents, report : ReportAgents]

---------------------------------------------------------------------------
(* Operations *)

Init ==
  /\ op = "none"
  /\ pc = "idle"
  /\ input = <<>>
  /\ output = <<>>

\* A direct call google_search(query, num_results).
GoogleSearchCall ==
  /\ pc = "idle"
  /\ \E q \in Queries, cap \in Caps, env \in GoogleEnvs :
       /\ op' = "google_search"
       /\ pc' = "done"
       /\ input' = [query |-> q, cap |-> cap, env |-> env]
       /\ output' = google_search(q, cap, env)

\* A direct call arxiv_search(query, max_results).
ArxivSearchCall ==
  /\ pc = "idle"
  /\ \E q \in ArxivQueries, cap \in Caps, env \in ArxivEnvs :
       /\ op' = "arxiv_search"
       /\ pc' = "done"
       /\ input' = [query |-> q, cap |-> cap, env |-> env]
       /\ output' = arxiv_search(q, cap, env)

\* A direct call team.conduct_review(topic).
ConductReviewCall ==
  /\ pc = "idle"
  /\ \E topic \in Topics, team \in Teams :
       /\ op' = "conduct_review"
       /\ pc' = "google"
       /\ input' = [topic |-> topic, pressed |-> TRUE, team |-> team]
       /\ output' = [Started EXCEPT !.reviews = 1]

\* One run of main, lines 209-222: the topic typed, whether the button
\* was pressed; a blank topic is refused, any other goes to conduct_review.
MainRun ==
  /\ pc = "idle"
  /\ \E topic \in TypedTopics, pressed \in BOOLEAN, team \in Teams :
       /\ op' = "main"
       /\ input' = [topic |-> topic, pressed |-> pressed, team |-> team]
       /\ IF ~pressed THEN
            /\ pc' = "done"
            /\ output' = Started
          ELSE IF Rejects(topic) THEN
            /\ pc' = "done"
            /\ output' = [Started EXCEPT !.rejected = TRUE,
                                         !.shown.error = InvalidTopic]
          ELSE
            /\ pc' = "google"
            /\ output' = [Started EXCEPT !.reviews = 1]

\* Line 177: self.google_agent.run(topic)
GoogleStage ==
  /\ pc = "google"
  /\ \E g \in {GoogleSearchAgent_run(input.topic, input.team.google)} :
       /\ output' = [output EXCEPT !.calls = Append(@, "google"),
                                   !.fetches = @ \o g.fetches,
                                   !.net = @ + g.net,
                                   !.exc = g.exc,
                                   !.g = g]
       /\ pc' = IF g.raised THEN "except" ELSE "arxiv"
  /\ UNCHANGED <<op, input>>

\* Line 178: self.arxiv_agent.run(topic)
ArxivStage ==
  /\ pc = "arxiv"
  /\ \E a \in {ArxivSearchAgent_run(input.topic, input.team.arxiv)} :
       /\ output' = [output EXCEPT !.calls = Append(@, "arxiv"),
                                   !.fetches = @ \o a.fetches,
                                   !.net = @ + a.net,
                                   !.exc = a.exc,
                                   !.a = a]
       /\ pc' = IF a.raised THEN "except" ELSE "report"
  /\ UNCHANGED <<op, input>>

\* Lines 181-199: the two isinstance checks, the call of report_agent.run
\* and the dict that is returned.  topic[:200] raises TypeError, before
\* the call, on a topic that is no string.
ReportStage ==
  /\ pc = "report"
  /\ IF input.topic.type # "str" THEN
       /\ output' = [output EXCEPT !.exc = "TypeError"]
       /\ pc' = "except"
     ELSE
       \E args \in {ReportArgs(input.topic.chars, AsList(output.g.results),
                               AsList(output.a.results))} :
         \E r \in {ReportAgent_run(args.topic, args.google, args.arxiv,
                                   input.team.report)} :
           /\ output' = [output EXCEPT
                           !.calls = Append(@, "report"),
                           !.reportArgs = args,
                           !.exc = r.exc,
                           !.result = IF r.raised THEN @
                                      ELSE SuccessResult(output.g, output.a, r)]
           /\ pc' = IF r.raised THEN "except" ELSE "returned"
  /\ UNCHANGED <<op, input>>

\* Lines 201-206: the except clause of conduct_review.
ExceptClause ==
  /\ pc = "except"
  /\ output' = OnException(output)
  /\ pc' = "returned"
  /\ UNCHANGED <<op, input>>

\* Lines 224-265: main shows the error or the results.
MainRender ==
  /\ pc = "returned"
  /\ op = "main"
  /\ output' = [output EXCEPT !.shown = Shown(output)]
  /\ pc' = "done"
  /\ UNCHANGED <<op, input>>

\* The call is over: nothing of it is kept for the next one.
Return ==
  /\ pc = "done" \/ (pc = "returned" /\ op = "conduct_review")
  /\ op' = "none"
  /\ pc' = "idle"
  /\ input' = <<>>
  /\ output' = <<>>

Next ==
  \/ GoogleSearchCall
  \/ ArxivSearchCall
  \/ ConductReviewCall
  \/ MainRun
  \/ GoogleStage
  \/ ArxivStage
  \/ ReportStage
  \/ ExceptClause
  \/ MainRender
  \/ Return

Spec == Init /\ [][Next]_vars

---------------------------------------------------------------------------
(* Where the current call stands, for the properties below *)

Fetched == op \in {"google_search", "arxiv_search"}
InPipeline == op \in {"conduct_review", "main"}

\* conduct_review, called directly or from main, has returned.
Returned == InPipeline /\ output.reviews = 1 /\ pc \in {"returned", "done"}

SuccessKeys == {"google_prompt", "arxiv_prompt", "report_prompt",
                "google_results", "arxiv_results", "literature_review"}

IsSuccess(result) == DOMAIN result = SuccessKeys

\* The stage raises to conduct_review: a patched stage that raises, or a
\* real search agent slicing a topic that is no string.
FakeRaises(agent) == agent.mode = "fake" /\ agent.out.kind = "raise"
SearchStageRaises(agent) ==
  FakeRaises(agent) \/ (agent.mode = "real" /\ input.topic.type # "str")

FakeNonList(agent) ==
  /\ agent.mode = "fake"
  /\ agent.out.kind = "return"
  /\ agent.out.results.type # "list"

FirstCallFails ==
  \/ op = "google_search" /\ input.env.search \in {"transport", "status"}
  \/ op = "arxiv_search" /\ input.env.fails /\ input.env.failAfter = 0

AllStages == <<"google", "arxiv", "report">>

---------------------------------------------------------------------------
(* Properties *)

\* C1: google_search and arxiv_search never raise to their caller,
\* whatever the query, the cap and the failures of the calls they make;
\* when the first network call fails the list they return is empty.
C1_FetchersNeverRaise ==
  Fetched =>
    /\ ~output.raised
    /\ DOMAIN output.value = 1..Len(output.value)
    /\ FirstCallFails => output.value = <<>>

C1_Witness ==
  /\ op = "google_search"
  /\ input.env.search = "transport"
  /\ ~output.raised
  /\ output.value = <<>>

\* C2: the list google_search returns is no longer than num_results and
\* the list arxiv_search returns is no longer than max_results, for every
\* cap and every number of containers or papers supplied.  Stated for the
\* caps a list can meet at all, the integers from 0 on.
C2_LengthWithinCap ==
  (Fetched /\ input.cap.type = "int" /\ input.cap.n >= 0) =>
    Len(output.value) <= input.cap.n

\* C3: a patched search stage whose results are not a list does not make
\* conduct_review fail: the result is the success variant, the malformed
\* results are replaced by the empty list there and in the call of the
\* generator.
C3_NonListCoerced ==
  (/\ Returned
   /\ input.topic.type = "str"
   /\ ~FakeRaises(input.team.google)
   /\ ~FakeRaises(input.team.arxiv)
   /\ ~FakeRaises(input.team.report)) =>
    /\ FakeNonList(input.team.google) =>
         /\ ~output.raised
         /\ IsSuccess(output.result)
         /\ output.result.google_results = <<>>
         /\ output.reportArgs.called
         /\ output.reportArgs.google = <<>>
    /\ FakeNonList(input.team.arxiv) =>
         /\ ~output.raised
         /\ IsSuccess(output.result)
         /\ output.result.arxiv_results = <<>>
         /\ output.reportArgs.called
         /\ output.reportArgs.arxiv = <<>>

C3_Witness ==
  /\ Returned
  /\ FakeNonList(input.team.google)
  /\ input.team.google.out.results.type = "tuple"
  /\ input.team.google.out.results.items # <<>>
  /\ IsSuccess(output.result)
  /\ output.result.google_results = <<>>

\* C4: when tokenization or generation raises inside the report stage,
\* conduct_review still returns a result whose literature_review is
\* "Error generating literature review" and whose report_prompt is the
\* prompt built from the arguments of the stage.
C4_GenerationDegrades ==
  (/\ Returned
   /\ input.team.report.mode = "real"
   /\ input.team.report.gen.kind \in {"tokenizer_raises", "generate_raises"}
   /\ "report" \in Range(output.calls)) =>
    /\ ~output.raised
    /\ IsSuccess(output.result)
    /\ output.result.literature_review = GenerationError
    /\ output.result.report_prompt.kind = "template"
    /\ output.result.report_prompt.topic = output.reportArgs.topic
    /\ output.result.report_prompt.google =
         ContextLen(GoogleStrLens(output.reportArgs.google))
    /\ output.result.report_prompt.arxiv =
         ContextLen(PaperStrLens(output.reportArgs.arxiv))

C4_Witness ==
  /\ Returned
  /\ input.team.report.mode = "real"
  /\ input.team.report.gen.kind = "generate_raises"
  /\ output.reportArgs.called
  /\ output.reportArgs.google # <<>>
  /\ output.result.literature_review = GenerationError

\* C5 as stated: a returned value that carries an error message carries
\* no field of the success variant.
C5_ErrorAlone ==
  Returned =>
    \/ IsSuccess(output.result)
    \/ /\ "error" \in DOMAIN output.result
       /\ DOMAIN output.result \cap SuccessKeys = {}

\* C5 amended: the value conduct_review returns is either the success
\* variant (the six success fields, no error) or the failure variant: the
\* error message together with the fixed literature_review text "Failed
\* to generate review due to system error", and no other success field.
C5_TwoVariants ==
  Returned =>
    \/ IsSuccess(output.result)
    \/ /\ DOMAIN output.result = {"error", "literature_review"}
       /\ output.result.error.prefix = "System error: "
       /\ output.result.literature_review = SystemErrorReview

C5_Witness ==
  /\ Returned
  /\ FakeRaises(input.team.arxiv)
  /\ DOMAIN output.result = {"error", "literature_review"}

\* C6: pressing the button with an empty topic makes main reject the
\* topic and return: conduct_review is not called, no stage runs, no
\* fetcher is called and no request is sent.
C6_EmptyTopicRejected ==
  (op = "main" /\ input.pressed /\ input.topic.chars = <<>>) =>
    /\ pc = "done"
    /\ output.rejected
    /\ output.shown.error = InvalidTopic
    /\ output.reviews = 0
    /\ output.calls = <<>>
    /\ output.fetches = <<>>
    /\ output.net = 0

C6_Witness ==
  /\ op = "main"
  /\ input.pressed
  /\ input.topic = Str(<<>>)
  /\ input.team.google.mode = "real"
  /\ output.rejected

\* C7: conduct_review never raises; when a stage raises it returns the
\* failure variant whose message is built from that exception, and the
\* stages run up to the raising one, each once, and none after it.
C7_NeverRaises ==
  InPipeline =>
    /\ ~output.raised
    /\ output.calls = SubSeq(AllStages, 1, Len(output.calls))
    /\ (Returned /\ SearchStageRaises(input.team.google)) =>
         /\ "error" \in DOMAIN output.result
         /\ output.result.error = ErrorMessage(
              IF FakeRaises(input.team.google) THEN "GoogleStageError"
              ELSE "TypeError")
         /\ output.calls = <<"google">>
    /\ (/\ Returned
        /\ ~SearchStageRaises(input.team.google)
        /\ SearchStageRaises(input.team.arxiv)) =>
         /\ "error" \in DOMAIN output.result
         /\ output.result.error = ErrorMessage(
              IF FakeRaises(input.team.arxiv) THEN "ArxivStageError"
              ELSE "TypeError")
         /\ output.calls = <<"google", "arxiv">>
    /\ (/\ Returned
        /\ ~SearchStageRaises(input.team.google)
        /\ ~SearchStageRaises(input.team.arxiv)
        /\ input.topic.type = "str"
        /\ FakeRaises(input.team.report)) =>
         /\ "error" \in DOMAIN output.result
         /\ output.result.error = ErrorMessage("ReportStageError")
         /\ output.calls = AllStages

C7_Witness ==
  /\ Returned
  /\ ~FakeRaises(input.team.google)
  /\ ~FakeRaises(input.team.arxiv)
  /\ input.topic.type = "str"
  /\ FakeRaises(input.team.report)
  /\ ~output.raised
  /\ "error" \in DOMAIN output.result
  /\ output.result.error.exc = "ReportStageError"

\* C8: every record google_search returns has a title of at most 200
\* characters, a snippet of at most 500 and a body of at most 2000 words;
\* every record arxiv_search returns has a title of at most 300
\* characters, at most 5 authors of at most 50 characters each and an
\* abstract of at most 1000 characters.
C8_FieldsBounded ==
  /\ op = "google_search" =>
       \A i \in 1..Len(output.value) :
         /\ output.value[i].title.len <= TitleLimit
         /\ output.value[i].snippet.len <= SnippetLimit
         /\ output.value[i].body.words <= MAX_BODY_LENGTH
  /\ op = "arxiv_search" =>
       \A i \in 1..Len(output.value) :
         /\ output.value[i].title.len <= PaperTitleLimit
         /\ Len(output.value[i].authors) <= AuthorsLimit
         /\ \A j \in 1..Len(output.value[i].authors) :
              output.value[i].authors[j].len <= AuthorNameLimit
         /\ output.value[i].abstract.len <= AbstractLimit

C8_Witness ==
  /\ op = "google_search"
  /\ input.env.search = "ok"
  /\ input.env.containers # <<>>
  /\ input.env.containers[1].h3.len > TitleLimit
  /\ input.env.containers[1].page.text.words > MAX_BODY_LENGTH
  /\ output.value # <<>>
  /\ output.value[1].title.len = TitleLimit

\* C9: once the search page was fetched, each of the first cap result
\* containers yields exactly one record; a missing title, link or
\* snippet, a link element without a usable target included, becomes
\* "No title", "#" or "No snippet", and a failed page fetch leaves the
\* record in the list with an empty body.  A link element without a
\* usable target is read as an <a> that has no href attribute.
C9_OneRecordPerContainer ==
  (/\ op = "google_search"
   /\ input.query.type = "str"
   /\ input.env.search = "ok"
   /\ input.cap.type = "int"
   /\ input.cap.n >= 0) =>
    LET n == Min(input.cap.n, Len(input.env.containers))
    IN /\ Len(output.value) = n
       /\ \A i \in 1..n :
            LET g == input.env.containers[i]
                rec == output.value[i]
            IN /\ ~g.h3.present => rec.title = T("No title", 8)
               /\ g.a \in {"missing", "nohref"} => rec.link = T("#", 1)
               /\ ~g.span.present => rec.snippet = T("No snippet", 10)
               /\ g.page.fails => rec.body = EmptyBody

\* C10: the lists handed to the generator and the lists shown by main
\* have at most MAX_SEARCH_RESULTS entries, whatever the search stages
\* returned, and the topic handed to the generator has at most 200
\* characters.
C10_CappedBeforeUse ==
  InPipeline =>
    /\ output.reportArgs.called =>
         /\ Len(output.reportArgs.google) <= MAX_SEARCH_RESULTS
         /\ Len(output.reportArgs.arxiv) <= MAX_SEARCH_RESULTS
         /\ Len(output.reportArgs.topic) <= TopicLimit
    /\ Len(output.shown.google) <= MAX_SEARCH_RESULTS
    /\ Len(output.shown.arxiv) <= MAX_SEARCH_RESULTS

C10_Witness ==
  /\ op = "main"
  /\ pc = "done"
  /\ IsSuccess(output.result)
  /\ Len(output.result.google_results) > MAX_SEARCH_RESULTS
  /\ Len(output.result.arxiv_results) > MAX_SEARCH_RESULTS
  /\ Len(output.reportArgs.google) = MAX_SEARCH_RESULTS
  /\ Len(output.shown.google) = MAX_SEARCH_RESULTS
  /\ Len(output.shown.arxiv) = MAX_SEARCH_RESULTS

====
